---- MODULE Spec2Model ----
(***************************************************************************)
(* A model of the context packer (src/src/pack.py) and of the secret       *)
(* redactor (src/src/redact_secrets.py).                                   *)
(*                                                                         *)
(*   SpecSplit   split_by_bytes_utf8, one action per iteration of its      *)
(*               outer loop                                                *)
(*   SpecSelect  the file selection of build_pack (iter_repo_files,        *)
(*               match_ignore, is_allowed_file, force-include)             *)
(*   SpecPack    completed build_pack runs into one output directory       *)
(*   SpecMirror  redact_secrets.main, in place and in mirror mode          *)
(*                                                                         *)
(* Text is a sequence of Unicode code points, bytes are numbers 0..255,    *)
(* and a path is a sequence of one-character strings.  Offsets into byte   *)
(* arrays are Python's (0-based): the byte at offset k is data[k + 1].     *)
(***************************************************************************)
EXTENDS Integers, Sequences, FiniteSets, TLC

VARIABLES
    \* split_by_bytes_utf8
    big_text, data, max_bytes, i, chunks, pc,
    \* the file selection of build_pack: the project tree (its files'
    \* relative paths), the arguments, the entries rglob has yet to yield,
    \* the list `files`, and the files iter_repo_files dropped
    tree, ignore, include_exts, force_include, todo, files, skipped, sel_pc,
    \* build_pack runs into one output directory: the project's files and
    \* their text, the clock, the files of the output directory, the
    \* number of completed runs, the last two completed runs, and whether
    \* a run is stuck in split_by_bytes_utf8
    project, now, doc_file, chunk_files, manifest_file, zip_file, runs,
    prev_run, last_run, pack_pc,
    \* redact_secrets.main: whether the source root exists, its files and
    \* their content, --mirror-out, the destination (absent, a file, or a
    \* directory with its files and sub-directories), the files iter_files
    \* has yet to yield, the count `changed`, the position and the exit
    \* code, and the source and destination as the run found them
    src_exists, src, mirror_out, dst_kind, dst_files, dst_dirs, pending,
    changed, red_pc, exit_code, src0, dst0

splitVars == <<big_text, data, max_bytes, i, chunks, pc>>
selVars == <<tree, ignore, include_exts, force_include, todo, files, skipped, sel_pc>>
packVars ==
    <<project, now, doc_file, chunk_files, manifest_file, zip_file, runs,
      prev_run, last_run, pack_pc>>
redVars ==
    <<src_exists, src, mirror_out, dst_kind, dst_files, dst_dirs, pending,
      changed, red_pc, exit_code, src0, dst0>>
vars == <<splitVars, selVars, packVars, redVars>>

----------------------------------------------------------------------------
(* Bounds of the model *)

\* longest document, in code points
MaxLen == 3
\* largest max_bytes tried
MaxBytes == 4
\* the outer loop of split_by_bytes_utf8 is followed for this many chunks
MaxChunks == 8
\* most files in a project tree
MaxFiles == 2
\* latest reading of the clock
MaxClock == 2
\* most build_pack runs into the output directory
MaxRuns == 2

----------------------------------------------------------------------------
(* UTF-8 *)

\* The code points documents are drawn from: 'a', e-acute (2 bytes when
\* encoded), the euro sign (3 bytes), an emoji (4 bytes).
CodePoints == {97, 233, 8364, 128512}

Min(a, b) == IF a <= b THEN a ELSE b

\* str.encode("utf-8") of one code point
EncodeChar(cp) ==
    IF cp < 128 THEN <<cp>>
    ELSE IF cp < 2048 THEN <<192 + (cp \div 64), 128 + (cp % 64)>>
    ELSE IF cp < 65536
        THEN <<224 + (cp \div 4096), 128 + ((cp \div 64) % 64), 128 + (cp % 64)>>
    ELSE <<240 + (cp \div 262144), 128 + ((cp \div 4096) % 64),
           128 + ((cp \div 64) % 64), 128 + (cp % 64)>>

\* str.encode("utf-8"): the encodings of the code points, in order
RECURSIVE EncodeRange(_, _, _)
EncodeRange(text, lo, hi) ==
    IF lo > hi THEN <<>>
    ELSE IF lo = hi THEN EncodeChar(text[lo])
    ELSE LET mid == (lo + hi) \div 2
         IN  EncodeRange(text, lo, mid) \o EncodeRange(text, mid + 1, hi)

Encode(text) == EncodeRange(text, 1, Len(text))

\* (b & 0b11000000) == 0b10000000
IsContinuation(b) == (b \div 64) % 4 = 2

\* The number of bytes the sequence a lead byte opens has, 0 for a byte
\* that opens none.
SeqLen(b) ==
    IF b < 128 THEN 1
    ELSE IF b \div 32 = 6 THEN 2
    ELSE IF b \div 16 = 14 THEN 3
    ELSE IF b \div 8 = 30 THEN 4
    ELSE 0

\* bytes.decode("utf-8") raises nothing: every sequence is opened by a lead
\* byte and has all its continuation bytes.
RECURSIVE IsValidUtf8(_)
IsValidUtf8(bs) ==
    IF bs = <<>> THEN TRUE
    ELSE LET n == SeqLen(Head(bs)) IN
         /\ n > 0
         /\ n <= Len(bs)
         /\ \A k \in 2..n : IsContinuation(bs[k])
         /\ IsValidUtf8(SubSeq(bs, n + 1, Len(bs)))

----------------------------------------------------------------------------
(* split_by_bytes_utf8 *)

\* data[i:j] written data[i:j-1]
SliceShort(d, a, b) == SubSeq(d, a + 1, b - 1)

\* data[a:b]
Slice(d, a, b) == SubSeq(d, a + 1, b)

\* the window taken one byte too long
NaiveCutLong(d, from, mb) == Min(from + mb + 1, Len(d))

\* j = min(i + max_bytes, len(data))
NaiveCut(d, from, mb) == Min(from + mb, Len(d))

\* while j > i and (data[j-1] & 0b11000000) == 0b10000000: j -= 1
RECURSIVE BackUp(_, _, _)
BackUp(d, from, j) ==
    IF j > from /\ IsContinuation(d[j]) THEN BackUp(d, from, j - 1) ELSE j

\* The cut point of the iteration that starts at offset `from`.
CutPoint(d, from, mb) == BackUp(d, from, NaiveCut(d, from, mb))

Texts == UNION {[1..n -> CodePoints] : n \in 0..MaxLen}

SplitInit ==
    /\ big_text \in Texts
    /\ max_bytes \in 1..MaxBytes
    /\ data = Encode(big_text)
    /\ chunks = <<>>
    /\ i = 0
    /\ pc = "loop"
    /\ tree = {} /\ ignore = <<>> /\ include_exts = {} /\ force_include = <<>>
    /\ todo = {} /\ files = <<>> /\ skipped = {} /\ sel_pc = "idle"
    /\ project = <<>> /\ now = 0 /\ doc_file = <<>> /\ chunk_files = <<>>
    /\ manifest_file = <<>> /\ zip_file = <<>> /\ runs = 0
    /\ prev_run = <<>> /\ last_run = <<>> /\ pack_pc = "idle"
    /\ src_exists = FALSE /\ src = <<>> /\ mirror_out = FALSE /\ dst_kind = "absent"
    /\ dst_files = <<>> /\ dst_dirs = {} /\ pending = {} /\ changed = 0
    /\ red_pc = "idle" /\ exit_code = 0 /\ src0 = <<>> /\ dst0 = <<>>

\* One iteration of `while i < len(data)`.
Iterate ==
    /\ pc = "loop"
    /\ i < Len(data)
    /\ Len(chunks) < MaxChunks
    /\ LET j == CutPoint(data, i, max_bytes) IN
        /\ chunks' = Append(chunks, Slice(data, i, j))
        /\ i' = j
    /\ UNCHANGED <<big_text, data, max_bytes, pc, selVars, packVars, redVars>>

\* return chunks
Return ==
    /\ pc = "loop"
    /\ i >= Len(data)
    /\ pc' = "done"
    /\ UNCHANGED <<big_text, data, max_bytes, i, chunks, selVars, packVars, redVars>>

SplitNext == Iterate \/ Return

----------------------------------------------------------------------------
(* Paths and ignore rules *)

\* ord() of the characters paths and patterns are made of
Ord(c) ==
    CASE c = "\n" -> 10
      [] c = "*" -> 42
      [] c = "." -> 46
      [] c = "/" -> 47
      [] c = "\\" -> 92
      [] c = "a" -> 97
      [] c = "b" -> 98
      [] c = "p" -> 112

\* s.replace("\\", "/")
ToUnix(s) == [k \in 1..Len(s) |-> IF s[k] = "\\" THEN "/" ELSE s[k]]

\* s.startswith(p)
StartsWith(s, p) == Len(p) <= Len(s) /\ SubSeq(s, 1, Len(p)) = p

\* s.endswith("/")
EndsWithSlash(s) == s # <<>> /\ s[Len(s)] = "/"

\* s.rstrip("/")
RECURSIVE RStripSlash(_)
RStripSlash(s) == IF EndsWithSlash(s) THEN RStripSlash(SubSeq(s, 1, Len(s) - 1)) ELSE s

\* re.match("^" + re.escape(pat).replace("\\*", ".*") + "$", s): every
\* character of the pattern but "*" stands for itself, "*" for any run of
\* characters other than line breaks, and "$" for the end of the path or
\* the place before a line break that ends it.
RECURSIVE GlobMatch(_, _)
GlobMatch(pat, s) ==
    IF pat = <<>> THEN s = <<>> \/ s = <<"\n">>
    ELSE IF Head(pat) = "*"
        THEN \E k \in 0..Len(s) :
                /\ \A m \in 1..k : s[m] # "\n"
                /\ GlobMatch(Tail(pat), SubSeq(s, k + 1, Len(s)))
    ELSE s # <<>> /\ Head(s) = Head(pat) /\ GlobMatch(Tail(pat), Tail(s))

\* The body of match_ignore's loop, for one pattern.
MatchesPattern(rel_unix, pat) ==
    IF EndsWithSlash(pat) THEN StartsWith(rel_unix, SubSeq(pat, 1, Len(pat) - 1))
    ELSE IF \E k \in 1..Len(pat) : pat[k] = "*" THEN GlobMatch(pat, rel_unix)
    ELSE rel_unix = pat

match_ignore(rel, patterns) ==
    \E k \in 1..Len(patterns) : MatchesPattern(ToUnix(rel), patterns[k])

\* Path(rel).name: what follows the last separator
RECURSIVE Name(_)
Name(rel) ==
    IF \E k \in 1..Len(rel) : rel[k] = "/"
        THEN Name(Tail(rel))
        ELSE rel

\* Path.suffix: the name from its last dot on, when that dot is neither the
\* first nor the last character of the name
Suffix(rel) ==
    LET n == Name(rel)
        dots == {k \in 1..Len(n) : n[k] = "."}
    IN  IF dots = {} THEN <<>>
        ELSE LET d == CHOOSE k \in dots : \A m \in dots : m <= k
             IN  IF 1 < d /\ d < Len(n) THEN SubSeq(n, d, Len(n)) ELSE <<>>

is_allowed_file(rel, exts) ==
    \/ Suffix(rel) \in exts
    \/ Name(rel) # <<>> /\ Head(Name(rel)) = "." /\ Suffix(rel) = <<>>

\* forced = [p.strip().replace("\\", "/").rstrip("/") + "/" for p in ...]
\* (no prefix of the model holds white space)
Forced(prefixes) ==
    [k \in 1..Len(prefixes) |-> Append(RStripSlash(ToUnix(prefixes[k])), "/")]

\* any(rel.startswith(fi) for fi in forced)
IsForced(rel, prefixes) ==
    \E k \in 1..Len(prefixes) : StartsWith(rel, Forced(prefixes)[k])

\* The directories above a file, each as iter_repo_files names it: its
\* relative path with a trailing separator.
DirsAbove(rel) == {SubSeq(rel, 1, k) : k \in {m \in 1..Len(rel) : rel[m] = "/"}}

\* str < str
RECURSIVE PathLess(_, _)
PathLess(s, t) ==
    IF t = <<>> THEN FALSE
    ELSE IF s = <<>> THEN TRUE
    ELSE IF Head(s) = Head(t) THEN PathLess(Tail(s), Tail(t))
    ELSE Ord(Head(s)) < Ord(Head(t))

\* files.sort(key=lambda x: x[1])
RECURSIVE Sorted(_)
Sorted(fs) ==
    IF fs = <<>> THEN <<>>
    ELSE LET rest == Sorted(Tail(fs))
             before == SelectSeq(rest, LAMBDA r : PathLess(r, Head(fs)))
             after == SelectSeq(rest, LAMBDA r : ~PathLess(r, Head(fs)))
         IN  before \o <<Head(fs)>> \o after

----------------------------------------------------------------------------
(* The file selection of build_pack *)

\* The files a project tree may hold.
Paths ==
    { <<"a", ".", "p">>, <<".", "b">>, <<"b">>,
      <<"a", "/", "a", ".", "p">>, <<"a", "/", "b">>, <<"a", "/", ".", "b">>,
      <<"a", "/", "b", "/", "a", ".", "p">>,
      <<"b", "/", "a", "/", "a", ".", "p">>, <<"b", "/", "a", "/", "b">>,
      <<"a", "b", "/", "b">>, <<"b", "\n", ".", "p">> }

\* No file of a tree is also a directory of it.
IsTree(fs) == \A f \in fs, g \in fs : Append(f, "/") \notin DirsAbove(g)

Trees == {fs \in SUBSET Paths : Cardinality(fs) <= MaxFiles /\ IsTree(fs)}

\* The rule lists load_ignore may return.
IgnoreLists ==
    { <<>>,
      << <<"a", "/">> >>,
      << <<"b", "/", "a", "/">> >>,
      << <<"*", ".", "p">> >>,
      << <<".", "b">>, <<"b">> >>,
      << <<"a", "/", "b", "/">>, <<"a", "*", "b">> >> }

ExtSets == { {}, {<<".", "p">>} }

PrefixLists == { <<>>, << <<"a">> >>, << <<"b", "/", "a", "/">> >>, << <<"a", "\\", "b">> >> }

SelInit ==
    /\ tree \in Trees
    /\ ignore \in IgnoreLists
    /\ include_exts \in ExtSets
    /\ force_include \in PrefixLists
    /\ todo = tree \cup UNION {DirsAbove(f) : f \in tree}
    /\ files = <<>>
    /\ skipped = {}
    /\ sel_pc = "walk"
    /\ big_text = <<>> /\ data = <<>> /\ max_bytes = 1 /\ i = 0
    /\ chunks = <<>> /\ pc = "idle"
    /\ project = <<>> /\ now = 0 /\ doc_file = <<>> /\ chunk_files = <<>>
    /\ manifest_file = <<>> /\ zip_file = <<>> /\ runs = 0
    /\ prev_run = <<>> /\ last_run = <<>> /\ pack_pc = "idle"
    /\ src_exists = FALSE /\ src = <<>> /\ mirror_out = FALSE /\ dst_kind = "absent"
    /\ dst_files = <<>> /\ dst_dirs = {} /\ pending = {} /\ changed = 0
    /\ red_pc = "idle" /\ exit_code = 0 /\ src0 = <<>> /\ dst0 = <<>>

\* Forced prefixes let a file past the ignore rules.
SelectsFileForcedFirst(rel, ign, exts, prefixes) ==
    \/ IsForced(rel, prefixes)
    \/ ~match_ignore(rel, ign) /\ is_allowed_file(rel, exts)

\* Whether build_pack appends a file of the tree to `files`:
\* iter_repo_files yields it, and it is allowed or forced.
SelectsFile(rel, ign, exts, prefixes) ==
    /\ ~match_ignore(rel, ign)
    /\ is_allowed_file(rel, exts) \/ IsForced(rel, prefixes)

\* rglob yields a directory: iter_repo_files tests it against the rules and
\* goes on to the next entry either way.
VisitDir ==
    /\ sel_pc = "walk"
    /\ \E d \in todo :
        /\ EndsWithSlash(d)
        /\ match_ignore(d, ignore) \in BOOLEAN
        /\ todo' = todo \ {d}
    /\ UNCHANGED <<tree, ignore, include_exts, force_include, files, skipped, sel_pc, splitVars, packVars, redVars>>

\* rglob yields a file.
VisitFile ==
    /\ sel_pc = "walk"
    /\ \E rel \in todo :
        /\ ~EndsWithSlash(rel)
        /\ todo' = todo \ {rel}
        /\ skipped' = IF match_ignore(rel, ignore) THEN skipped \cup {rel} ELSE skipped
        /\ files' = IF SelectsFile(rel, ignore, include_exts, force_include)
                        THEN Append(files, rel) ELSE files
    /\ UNCHANGED <<tree, ignore, include_exts, force_include, sel_pc, splitVars, packVars, redVars>>

\* The walk is over: files.sort(key=lambda x: x[1])
SortFiles ==
    /\ sel_pc = "walk"
    /\ todo = {}
    /\ files' = Sorted(files)
    /\ sel_pc' = "selected"
    /\ UNCHANGED <<tree, ignore, include_exts, force_include, todo, skipped, splitVars, packVars, redVars>>

SelNext == VisitDir \/ VisitFile \/ SortFiles

----------------------------------------------------------------------------
(* build_pack *)

\* split_by_bytes_utf8 never returns: some iteration leaves i where it was.
RECURSIVE LoopsForever(_, _, _)
LoopsForever(d, from, mb) ==
    IF from >= Len(d) THEN FALSE
    ELSE IF CutPoint(d, from, mb) = from THEN TRUE
    ELSE LoopsForever(d, CutPoint(d, from, mb), mb)

\* The chunks split_by_bytes_utf8 returns, from offset `from` on.
RECURSIVE ChunksFrom(_, _, _)
ChunksFrom(d, from, mb) ==
    IF from >= Len(d) THEN <<>>
    ELSE <<Slice(d, from, CutPoint(d, from, mb))>>
            \o ChunksFrom(d, CutPoint(d, from, mb), mb)

split_by_bytes_utf8(text, mb) == ChunksFrom(Encode(text), 0, mb)

\* The code points of a path or of a literal of the document.
Chars(s) == [k \in 1..Len(s) |-> Ord(s[k])]

\* "\n".join(lines)
RECURSIVE JoinLines(_)
JoinLines(lines) ==
    IF lines = <<>> THEN <<>>
    ELSE IF Len(lines) = 1 THEN Head(lines)
    ELSE Head(lines) \o <<10>> \o JoinLines(Tail(lines))

\* datetime.utcnow().isoformat(): the reading t of the clock as text, here
\* one digit
IsoFormat(t) == <<48 + t>>

\* len(Path(rel).parts) - 1
Depth(rel) == Cardinality({k \in 1..Len(rel) : rel[k] = "/"})

\* "  " * depth
RECURSIVE Indent(_)
Indent(n) == IF n = 0 THEN <<>> ELSE <<32, 32>> \o Indent(n - 1)

\* render_tree; "```text" is written "`t", root.name "r" and "```" "`".
render_tree(fs) ==
    JoinLines(<< <<96, 116>>, <<114, 47>> >>
              \o [k \in 1..Len(fs) |-> Indent(Depth(fs[k])) \o Chars(Name(fs[k]))]
              \o << <<96>> >>)

\* text[:250_000] + "\n<<TRUNCATED>>\n" (the marker is written "\nT\n")
TruncateAt == 250000

Truncated(text) ==
    IF Len(text) > TruncateAt THEN SubSeq(text, 1, TruncateAt) \o <<10, 84, 10>> ELSE text

\* p.suffix.lstrip(".")
RECURSIVE LStripDot(_)
LStripDot(s) == IF s # <<>> /\ Head(s) = "." THEN LStripDot(Tail(s)) ELSE s

\* f"\n### `{rel}`\n```{fence_lang}\n{text}\n```\n" ("### `" is written
\* "#", "```" "`")
FileSection(rel, text) ==
    <<10, 35>> \o Chars(rel) \o <<96, 10, 96>> \o Chars(LStripDot(Suffix(rel)))
        \o <<10>> \o Truncated(text) \o <<10, 96, 10>>

\* The files heading carries the time too.
SectionsStampedTwice(fs, proj, t) ==
    << <<35, 10, 10, 114, 10>> \o <<48 + t>> \o <<90, 10>>,
       <<82, 10>> \o render_tree(fs) \o <<10>>,
       <<78, 10>>,
       <<70>> \o <<48 + t>> \o <<10>> >>
    \o [k \in 1..Len(fs) |-> FileSection(fs[k], proj[fs[k]])]

\* The sections of the document. The header is "# Project Context
\* Pack\n\n- Root: `{root}`\n- Built: {utcnow}Z\n", written "#\n\nr\n" and
\* the time and "Z\n"; the headings of the other sections are written by
\* their first letters.
Sections(fs, proj, t) ==
    << <<35, 10, 10, 114, 10>> \o IsoFormat(t) \o <<90, 10>>,
       <<82, 10>> \o render_tree(fs) \o <<10>>,
       <<78, 10>>,
       <<70, 10>> >>
    \o [k \in 1..Len(fs) |-> FileSection(fs[k], proj[fs[k]])]

\* Where the time stands in the document.
BuiltAt == 6

\* hashlib.sha256(...).hexdigest(), as a digest of 16 bits: the length and
\* the bytes, each weighted by its place
RECURSIVE WeightedSum(_, _, _)
WeightedSum(bs, lo, hi) ==
    IF lo > hi THEN 0
    ELSE IF lo = hi THEN lo * bs[lo]
    ELSE LET mid == (lo + hi) \div 2
         IN  WeightedSum(bs, lo, mid) + WeightedSum(bs, mid + 1, hi)

Sha256(bs) == (Len(bs) + 31 * WeightedSum(bs, 1, Len(bs))) % 65536

\* The list `files` of build_pack: the files of the tree the walk yields
\* and the filters keep, sorted (the order rglob yields them in is lost in
\* the sort).
RECURSIVE SeqOf(_)
SeqOf(S) == IF S = {} THEN <<>> ELSE LET x == CHOOSE y \in S : TRUE IN <<x>> \o SeqOf(S \ {x})

SelectedFiles(fs, ign, exts, prefixes) ==
    Sorted(SeqOf({f \in fs : SelectsFile(f, ign, exts, prefixes)}))

\* The settings of the runs: no .gptignore but the one rule "*.b", the
\* extension ".p", no forced prefix.
PackIgnore == << <<"*", ".", "b">> >>
PackExts == { <<".", "p">> }
PackForced == <<>>

PackFiles(proj) == SelectedFiles(DOMAIN proj, PackIgnore, PackExts, PackForced)

\* big_text = "\n".join(sections)
BigText(proj, t) == JoinLines(Sections(PackFiles(proj), proj, t))

\* The project trees: each file with its text.
Projects ==
    { [f \in {<<"a", ".", "p">>} |-> <<97>>],
      [f \in {<<"a", ".", "p">>, <<"a", ".", "b">>} |-> <<233>>],
      [f \in {<<"a", ".", "p">>, <<"b", "/", "b", ".", "p">>} |-> <<8364, 97>>] }

\* The values of --max-bytes tried.
PackMaxBytes == {1, 16, 64}

NoFile == <<>>

PackInit ==
    /\ project \in Projects
    /\ now = 0
    /\ doc_file = NoFile
    /\ chunk_files = <<>>
    /\ manifest_file = NoFile
    /\ zip_file = NoFile
    /\ runs = 0
    /\ prev_run = <<>>
    /\ last_run = <<>>
    /\ pack_pc = "idle"
    /\ big_text = <<>> /\ data = <<>> /\ max_bytes = 1 /\ i = 0
    /\ chunks = <<>> /\ pc = "idle"
    /\ tree = {} /\ ignore = <<>> /\ include_exts = {} /\ force_include = <<>>
    /\ todo = {} /\ files = <<>> /\ skipped = {} /\ sel_pc = "idle"
    /\ src_exists = FALSE /\ src = <<>> /\ mirror_out = FALSE /\ dst_kind = "absent"
    /\ dst_files = <<>> /\ dst_dirs = {} /\ pending = {} /\ changed = 0
    /\ red_pc = "idle" /\ exit_code = 0 /\ src0 = <<>> /\ dst0 = <<>>

\* Time passes.
Tick ==
    /\ pack_pc = "idle"
    /\ now < MaxClock
    /\ now' = now + 1
    /\ UNCHANGED <<project, doc_file, chunk_files, manifest_file, zip_file, runs,
                   prev_run, last_run, pack_pc, splitVars, selVars, redVars>>

\* The project is edited between two runs.
EditProject ==
    /\ pack_pc = "idle"
    /\ runs < MaxRuns
    /\ project' \in Projects \ {project}
    /\ UNCHANGED <<now, doc_file, chunk_files, manifest_file, zip_file, runs,
                   prev_run, last_run, pack_pc, splitVars, selVars, redVars>>

\* The chunk files a run leaves: it writes 0001.md .. N.md and removes
\* nothing.
WriteChunks(old, blobs) ==
    [k \in 1..(IF Len(old) > Len(blobs) THEN Len(old) ELSE Len(blobs)) |->
        IF k <= Len(blobs) THEN blobs[k] ELSE old[k]]

\* The manifest of a run.
Manifest(fs, text, blobs, mb, t) ==
    [ built_at_utc |-> IsoFormat(t) \o <<90>>,
      total_bytes |-> Len(Encode(text)),
      sha256 |-> Sha256(Encode(text)),
      num_files_included |-> Len(fs),
      num_chunks |-> Len(blobs),
      max_bytes_per_chunk |-> mb,
      first_chunk_path |-> IF blobs # <<>> THEN 1 ELSE 0,
      files_sample |-> SubSeq(fs, 1, Min(20, Len(fs))) ]

\* A run of build_pack that completes. The clock is read for the document
\* (t1) and again for the manifest (t2).
BuildPack ==
    /\ pack_pc = "idle"
    /\ runs < MaxRuns
    /\ \E mb \in PackMaxBytes, t2 \in now..Min(now + 1, MaxClock) :
       \E fs \in {PackFiles(project)}, text \in {BigText(project, now)} :
        /\ ~LoopsForever(Encode(text), 0, mb)
        /\ \E blobs \in {split_by_bytes_utf8(text, mb)} :
           \E manifest \in {Manifest(fs, text, blobs, mb, t2)} :
            /\ doc_file' = text
            /\ chunk_files' = WriteChunks(chunk_files, blobs)
            /\ manifest_file' = manifest
            /\ zip_file' = [doc |-> text, manifest |-> manifest, chunks |-> blobs]
            /\ prev_run' = last_run
            /\ last_run' = [project |-> project, max_bytes |-> mb, built |-> now,
                            doc |-> text, sha256 |-> manifest.sha256]
        /\ now' = t2
    /\ runs' = runs + 1
    /\ UNCHANGED <<project, pack_pc, splitVars, selVars, redVars>>

\* A run of build_pack whose call of split_by_bytes_utf8 never returns: the
\* document is written, and nothing after it.
BuildPackHangs ==
    /\ pack_pc = "idle"
    /\ runs < MaxRuns
    /\ \E mb \in PackMaxBytes, text \in {BigText(project, now)} :
        /\ LoopsForever(Encode(text), 0, mb)
        /\ doc_file' = text
    /\ pack_pc' = "hung"
    /\ UNCHANGED <<project, now, chunk_files, manifest_file, zip_file, runs,
                   prev_run, last_run, splitVars, selVars, redVars>>

PackNext == Tick \/ EditProject \/ BuildPack \/ BuildPackHangs

----------------------------------------------------------------------------
(* redact_secrets.py *)

\* TEXT_EXTS, of which the model's paths use ".p" (no path of the model
\* has an upper-case letter for suffix.lower() to change)
TEXT_EXTS == { <<".", "p">> }

is_text_file(rel) ==
    \/ Suffix(rel) \in TEXT_EXTS
    \/ Name(rel) # <<>> /\ Head(Name(rel)) = "." /\ Suffix(rel) = <<>>

\* What a file holds: text without a secret, text with a secret
\* assignment, text whose secrets are redacted, or bytes that are not
\* UTF-8.
Contents == {"plain", "secret", "undecodable"}

\* redact_string: the REPLACERS rewrite every secret assignment
redact_string(text) == IF text = "secret" THEN "redacted" ELSE text

\* p.read_text(encoding="utf-8") raises
Unreadable(content) == content = "undecodable"

\* The files a source tree may hold.
SrcPaths ==
    { <<"a", ".", "p">>, <<"b">>, <<".", "b">>, <<"a", "/", "a", ".", "p">> }

SrcTrees ==
    UNION {[fs -> Contents] : fs \in {x \in SUBSET SrcPaths : Cardinality(x) <= MaxFiles}}

\* The destinations a run may find: none, a file, an empty directory, a
\* directory holding a file, a directory holding an empty directory.
Destinations ==
    { [kind |-> "absent", files |-> <<>>, dirs |-> {}],
      [kind |-> "file", files |-> <<>>, dirs |-> {}],
      [kind |-> "dir", files |-> <<>>, dirs |-> {}],
      [kind |-> "dir", files |-> [f \in {<<"a", ".", "p">>} |-> "secret"], dirs |-> {}],
      [kind |-> "dir", files |-> <<>>, dirs |-> {<<"b", "/">>}] }

Dst == [kind |-> dst_kind, files |-> dst_files, dirs |-> dst_dirs]

RedInit ==
    /\ src_exists \in BOOLEAN
    /\ src \in (IF src_exists THEN SrcTrees ELSE {<<>>})
    /\ mirror_out \in BOOLEAN
    /\ \E d \in (IF mirror_out THEN Destinations ELSE {[kind |-> "absent", files |-> <<>>, dirs |-> {}]}) :
        /\ dst_kind = d.kind
        /\ dst_files = d.files
        /\ dst_dirs = d.dirs
        /\ dst0 = d
    /\ src0 = src
    /\ pending = {}
    /\ changed = 0
    /\ red_pc = "main"
    /\ exit_code = 0
    /\ big_text = <<>> /\ data = <<>> /\ max_bytes = 1 /\ i = 0
    /\ chunks = <<>> /\ pc = "idle"
    /\ tree = {} /\ ignore = <<>> /\ include_exts = {} /\ force_include = <<>>
    /\ todo = {} /\ files = <<>> /\ skipped = {} /\ sel_pc = "idle"
    /\ project = <<>> /\ now = 0 /\ doc_file = <<>> /\ chunk_files = <<>>
    /\ manifest_file = <<>> /\ zip_file = <<>> /\ runs = 0
    /\ prev_run = <<>> /\ last_run = <<>> /\ pack_pc = "idle"

\* The refusal is made for an empty destination instead.
MirrorRefusedWhenEmpty(kind, fs, ds) == kind = "dir" /\ fs = <<>> /\ ds = {}

\* dst_root.exists() and any(dst_root.iterdir()), for a directory
MirrorRefused(kind, fs, ds) == kind = "dir" /\ (fs # <<>> \/ ds # {})

\* if not src_root.exists(): return 2
MissingRoot ==
    /\ red_pc = "main"
    /\ ~src_exists
    /\ red_pc' = "done"
    /\ exit_code' = 2
    /\ UNCHANGED <<src_exists, src, mirror_out, dst_kind, dst_files, dst_dirs, pending,
                   changed, src0, dst0, splitVars, selVars, packVars>>

\* The destination exists and is not empty: return 3
RefuseMirror ==
    /\ red_pc = "main"
    /\ src_exists /\ mirror_out
    /\ MirrorRefused(dst_kind, dst_files, dst_dirs)
    /\ red_pc' = "done"
    /\ exit_code' = 3
    /\ UNCHANGED <<src_exists, src, mirror_out, dst_kind, dst_files, dst_dirs, pending,
                   changed, src0, dst0, splitVars, selVars, packVars>>

\* The destination is a file: dst_root.iterdir() raises NotADirectoryError,
\* which nothing catches, and the interpreter exits with 1.
MirrorOntoFile ==
    /\ red_pc = "main"
    /\ src_exists /\ mirror_out
    /\ dst_kind = "file"
    /\ red_pc' = "done"
    /\ exit_code' = 1
    /\ UNCHANGED <<src_exists, src, mirror_out, dst_kind, dst_files, dst_dirs, pending,
                   changed, src0, dst0, splitVars, selVars, packVars>>

\* The mirror loop is entered.
StartMirror ==
    /\ red_pc = "main"
    /\ src_exists /\ mirror_out
    /\ dst_kind # "file"
    /\ ~MirrorRefused(dst_kind, dst_files, dst_dirs)
    /\ pending' = DOMAIN src
    /\ red_pc' = "mirror"
    /\ UNCHANGED <<src_exists, src, mirror_out, dst_kind, dst_files, dst_dirs,
                   changed, exit_code, src0, dst0, splitVars, selVars, packVars>>

\* redact_to_mirror, for one file iter_files yields
MirrorFile ==
    /\ red_pc = "mirror"
    /\ \E rel \in pending :
        /\ pending' = pending \ {rel}
        \* dst_path.parent.mkdir(parents=True, exist_ok=True)
        /\ dst_kind' = "dir"
        /\ dst_dirs' = dst_dirs \cup DirsAbove(rel)
        /\ dst_files' =
            [f \in DOMAIN dst_files \cup {rel} |->
                IF f # rel THEN dst_files[f]
                ELSE IF is_text_file(rel) /\ ~Unreadable(src[rel])
                    THEN redact_string(src[rel])
                    ELSE src[rel]]
    /\ UNCHANGED <<src_exists, src, mirror_out, changed, red_pc, exit_code, src0, dst0,
                   splitVars, selVars, packVars>>

\* The mirror loop is over: return 0
MirrorDone ==
    /\ red_pc = "mirror"
    /\ pending = {}
    /\ red_pc' = "done"
    /\ exit_code' = 0
    /\ UNCHANGED <<src_exists, src, mirror_out, dst_kind, dst_files, dst_dirs, pending,
                   changed, src0, dst0, splitVars, selVars, packVars>>

\* The in-place loop is entered.
StartInPlace ==
    /\ red_pc = "main"
    /\ src_exists /\ ~mirror_out
    /\ pending' = DOMAIN src
    /\ red_pc' = "inplace"
    /\ UNCHANGED <<src_exists, src, mirror_out, dst_kind, dst_files, dst_dirs,
                   changed, exit_code, src0, dst0, splitVars, selVars, packVars>>

\* One file of the in-place loop: redact_file_inplace for a text file
InPlaceFile ==
    /\ red_pc = "inplace"
    /\ \E rel \in pending :
        /\ pending' = pending \ {rel}
        /\ IF /\ is_text_file(rel)
              /\ ~Unreadable(src[rel])
              /\ redact_string(src[rel]) # src[rel]
            THEN /\ src' = [src EXCEPT ![rel] = redact_string(src[rel])]
                 /\ changed' = changed + 1
            ELSE UNCHANGED <<src, changed>>
    /\ UNCHANGED <<src_exists, mirror_out, dst_kind, dst_files, dst_dirs, red_pc,
                   exit_code, src0, dst0, splitVars, selVars, packVars>>

\* The in-place loop is over: return 0
InPlaceDone ==
    /\ red_pc = "inplace"
    /\ pending = {}
    /\ red_pc' = "done"
    /\ exit_code' = 0
    /\ UNCHANGED <<src_exists, src, mirror_out, dst_kind, dst_files, dst_dirs, pending,
                   changed, src0, dst0, splitVars, selVars, packVars>>

RedNext ==
    \/ MissingRoot \/ RefuseMirror \/ MirrorOntoFile
    \/ StartMirror \/ MirrorFile \/ MirrorDone
    \/ StartInPlace \/ InPlaceFile \/ InPlaceDone

----------------------------------------------------------------------------
(* Specifications *)

SpecSplit == SplitInit /\ [][SplitNext]_vars

SpecSelect == SelInit /\ [][SelNext]_vars

SpecPack == PackInit /\ [][PackNext]_vars

SpecMirror == RedInit /\ [][RedNext]_vars

----------------------------------------------------------------------------
(* Properties of the file selection *)

Range(f) == {f[k] : k \in DOMAIN f}

\* A directory-prefix rule as the specification reads it: the path starts
\* with the rule, trailing separator included.
UnderRule(rel_unix, pat) ==
    IF EndsWithSlash(pat) THEN StartsWith(rel_unix, pat)
    ELSE IF \E k \in 1..Len(pat) : pat[k] = "*" THEN GlobMatch(pat, rel_unix)
    ELSE rel_unix = pat

\* C5: no selected file matches an ignore rule itself, and none lies in a
\* directory, at any depth above it, that a directory-prefix rule matches,
\* whatever its extension and whatever the force-include prefixes.
C5_IgnoreTakesPrecedence ==
    \A f \in Range(files) :
        /\ ~match_ignore(f, ignore)
        /\ \A d \in DirsAbove(f) : \A r \in 1..Len(ignore) :
            EndsWithSlash(ignore[r]) => ~match_ignore(d, <<ignore[r]>>)

C5_Witness ==
    /\ sel_pc = "selected"
    /\ files # <<>>
    /\ \E f \in tree :
        /\ f \notin Range(files)
        /\ is_allowed_file(f, include_exts)
        /\ IsForced(f, force_include)
        /\ Cardinality(DirsAbove(f)) >= 2
        /\ \E d \in DirsAbove(f) : \E r \in 1..Len(ignore) :
            EndsWithSlash(ignore[r]) /\ match_ignore(d, <<ignore[r]>>)

\* C9: iter_repo_files drops a file for the ignore rules exactly when some
\* rule matches it, a directory-prefix rule matching only the paths that
\* start with the rule including its trailing separator.
C9_DirRuleMatchesOnlyUnder ==
    \A f \in tree \ todo :
        f \in skipped <=> \E r \in 1..Len(ignore) : UnderRule(ToUnix(f), ignore[r])

----------------------------------------------------------------------------
(* Properties of split_by_bytes_utf8 *)

RECURSIVE ConcatRange(_, _, _)
ConcatRange(ss, lo, hi) ==
    IF lo > hi THEN <<>>
    ELSE IF lo = hi THEN ss[lo]
    ELSE LET mid == (lo + hi) \div 2
         IN  ConcatRange(ss, lo, mid) \o ConcatRange(ss, mid + 1, hi)

Concat(ss) == ConcatRange(ss, 1, Len(ss))

Max(S) == CHOOSE x \in S : \A y \in S : y <= x

\* The pieces a set of cut offsets makes of a byte array.
Pieces(d, cuts) ==
    {SubSeq(d, Max({0} \cup {x \in cuts : x < c}) + 1, c) : c \in cuts \cup {Len(d)}}

\* The sets of cut offsets whose pieces are all at most mb long and valid
\* UTF-8 on their own.
GoodCuts(d, mb) ==
    {cuts \in SUBSET (1..(Len(d) - 1)) :
        \A p \in Pieces(d, cuts) : Len(p) <= mb /\ IsValidUtf8(p)}

\* C1: every chunk returned is valid UTF-8 by itself (it starts and ends on
\* a code-point boundary), the document being valid UTF-8.
C1_ChunksValidUtf8 ==
    (pc = "done" /\ IsValidUtf8(data)) =>
        \A k \in 1..Len(chunks) : IsValidUtf8(chunks[k])

\* C2: at every iteration the chunks emitted so far concatenate to
\* data[0:i], and the chunks returned concatenate to the whole encoding.
C2_RoundTrip ==
    /\ Concat(chunks) = SubSeq(data, 1, i)
    /\ pc = "done" => Concat(chunks) = Encode(big_text)

C2_Witness ==
    /\ pc = "done"
    /\ Len(chunks) >= 2
    /\ Len(data) > Len(big_text)

\* C3: every iteration emits a non-empty chunk, so the position strictly
\* increases and the loop ends.
C3_EveryChunkNonEmpty == \A k \in 1..Len(chunks) : chunks[k] # <<>>

\* C6: every chunk is at most max_bytes long.
C6_ChunkSizeBound == \A k \in 1..Len(chunks) : Len(chunks[k]) <= max_bytes

C6_Witness ==
    /\ pc = "done"
    /\ Len(chunks) >= 2
    /\ \E k \in 1..Len(chunks) : Len(chunks[k]) = max_bytes /\ max_bytes >= 2

\* C7: the number of chunks returned is the least number of pieces, each
\* at most max_bytes long and valid UTF-8, the encoding can be cut into.
C7_MinimalChunkCount ==
    (pc = "done" /\ data # <<>> /\ GoodCuts(data, max_bytes) # {}) =>
        \A cuts \in GoodCuts(data, max_bytes) : Len(chunks) <= Cardinality(cuts) + 1

----------------------------------------------------------------------------
(* Properties of build_pack *)

\* The last two completed runs read the same project with the same
\* settings.
SameInputs ==
    /\ runs >= 2
    /\ prev_run.project = last_run.project
    /\ prev_run.max_bytes = last_run.max_bytes

\* C4: two runs on an unchanged tree with the same settings write the same
\* document and the same hash, whenever they happen.
C4_Deterministic ==
    SameInputs => prev_run.doc = last_run.doc /\ prev_run.sha256 = last_run.sha256

\* C4 as amended: the two documents are the same but for the build time in
\* the header, and they are the same, with the same hash, when both runs
\* read the same time.
C4_SameButForBuildTime ==
    SameInputs =>
        /\ Len(prev_run.doc) = Len(last_run.doc)
        /\ \A k \in 1..Len(last_run.doc) :
            k # BuiltAt => prev_run.doc[k] = last_run.doc[k]
        /\ prev_run.built = last_run.built =>
            prev_run.doc = last_run.doc /\ prev_run.sha256 = last_run.sha256

C4_Witness ==
    /\ SameInputs
    /\ prev_run.built # last_run.built
    /\ prev_run.doc # last_run.doc
    /\ Len(PackFiles(last_run.project)) >= 2

\* C10: after completed runs the output directory is that of the latest
\* run: chunks/ holds the files 0001.md .. N.md for the manifest's
\* num_chunks N and nothing else, and they concatenate to the document.
C10_OutputIsLatestRun ==
    (runs >= 1 /\ pack_pc = "idle") =>
        /\ Len(chunk_files) = manifest_file.num_chunks
        /\ Concat(chunk_files) = Encode(doc_file)

----------------------------------------------------------------------------
(* Properties of redact_secrets.main *)

\* C8: a mirror run that finds its destination a directory with an entry
\* in it exits with code 3 and changes nothing, in the destination or in
\* the source; only a destination that was absent or empty is written to.
C8_NonEmptyDestinationUntouched ==
    /\ (src_exists /\ mirror_out /\ dst0.kind = "dir"
            /\ (dst0.files # <<>> \/ dst0.dirs # {})) =>
        /\ Dst = dst0
        /\ src = src0
        /\ red_pc = "done" => exit_code = 3
    /\ Dst # dst0 =>
        (dst0.kind = "absent" \/ (dst0.kind = "dir" /\ dst0.files = <<>> /\ dst0.dirs = {}))

C8_Witness ==
    /\ red_pc = "done"
    /\ exit_code = 3
    /\ dst0.files # <<>>
    /\ \E f \in DOMAIN src : f \in DOMAIN dst0.files /\ src[f] = "secret"

====
